---- MODULE Spec2Model ----
(***************************************************************************)
(* A model of the WebVTT parser of src/webvtt.go: the segmenting scanner   *)
(* Parse, the aggregator ParseAll, the block classifier parseBlock, the    *)
(* cue builder parseCue, the decoders parseTimestampLine / parseTimestamp  *)
(* and the voice-span extractor parseVoices.                               *)
(*                                                                         *)
(* A Go string is a sequence of one-character strings (all inputs are      *)
(* ASCII, so byte offsets and character offsets agree).  Go offsets are    *)
(* 0-based; the operators below keep Go's 0-based offsets and half-open    *)
(* slices s[a:b] so that the arithmetic of the source carries over.        *)
(* A Go error is the sequence of its messages, outermost first; nil is the *)
(* empty sequence.  A time.Duration is counted in milliseconds (every      *)
(* duration the parser builds is a whole number of milliseconds).          *)
(***************************************************************************)
EXTENDS Integers, Sequences, FiniteSets, TLC

VARIABLES
    input,      \* the lines bufio.Scanner will deliver, in order
    readErr,    \* what scanner.Err() reports once Scan returns false
    consumer,   \* who ranges over Parse: "range" (any loop body) or "ParseAll"
    pc,         \* position in Parse: header, loop, last, tail, done, returned
    pos,        \* number of lines the scanner has delivered
    scans,      \* number of calls of scanner.Scan
    lines,      \* Parse's local `lines`: the current group
    out,        \* the items handed to yield, in order
    stopped,    \* some call of yield has returned false
    vtt,        \* ParseAll's vtt.Cues
    ret,        \* ParseAll's return value
    arg,        \* argument of parseTimestamp or parseVoices called on its own
    fields,     \* the numeric fields arg was written from (timestamps)
    res,        \* result of that call
    step        \* "idle", "ready" or "called"

vars == <<input, readErr, consumer, pc, pos, scans, lines, out, stopped,
          vtt, ret, arg, fields, res, step>>

-----------------------------------------------------------------------------
(* Strings *)

NoErr == <<>>

Slice(s, a, b) == SubSeq(s, a + 1, b)

IsSpace(c) == c \in {" ", "\t", "\n", "\r"}

IsDigit(c) == c \in {"0", "1", "2", "3", "4", "5", "6", "7", "8", "9"}

DigitVal(c) ==
    CASE c = "0" -> 0 [] c = "1" -> 1 [] c = "2" -> 2 [] c = "3" -> 3
      [] c = "4" -> 4 [] c = "5" -> 5 [] c = "6" -> 6 [] c = "7" -> 7
      [] c = "8" -> 8 [] c = "9" -> 9

HasPrefix(s, p) == Len(s) >= Len(p) /\ SubSeq(s, 1, Len(p)) = p

\* strings.Index: the 0-based offset of the first occurrence of sub, or -1
Index(s, sub) ==
    LET hits == {i \in 0..(Len(s) - Len(sub)) : Slice(s, i, i + Len(sub)) = sub}
    IN  IF hits = {} THEN -1 ELSE CHOOSE i \in hits : \A j \in hits : i <= j

\* strings.TrimSpace
TrimSpace(s) ==
    LET keep == {i \in 1..Len(s) : ~IsSpace(s[i])}
    IN  IF keep = {} THEN <<>>
        ELSE SubSeq(s, CHOOSE i \in keep : \A j \in keep : i <= j,
                       CHOOSE i \in keep : \A j \in keep : i >= j)

\* strings.Split(s, sep) for a non-empty separator
RECURSIVE Split(_, _)
Split(s, sep) ==
    LET i == Index(s, sep)
    IN  IF i < 0 THEN <<s>>
        ELSE <<Slice(s, 0, i)>> \o Split(Slice(s, i + Len(sep), Len(s)), sep)

\* strings.SplitN(s, sep, 2)
SplitN2(s, sep) ==
    LET i == Index(s, sep)
    IN  IF i < 0 THEN <<s>>
        ELSE <<Slice(s, 0, i), Slice(s, i + Len(sep), Len(s))>>

\* strings.Fields: the maximal runs of non-space characters
RECURSIVE Fields(_)
Fields(s) ==
    IF s = <<>> THEN <<>>
    ELSE IF IsSpace(s[1]) THEN Fields(Tail(s))
    ELSE LET sp == {i \in 1..Len(s) : IsSpace(s[i])}
             e  == IF sp = {} THEN Len(s) + 1
                   ELSE CHOOSE i \in sp : \A j \in sp : i <= j
         IN  <<SubSeq(s, 1, e - 1)>> \o Fields(SubSeq(s, e, Len(s)))

\* strings.Join
RECURSIVE Join(_, _)
Join(ss, sep) ==
    IF ss = <<>> THEN <<>>
    ELSE IF Len(ss) = 1 THEN ss[1]
    ELSE ss[1] \o sep \o Join(Tail(ss), sep)

RECURSIVE DecimalValue(_)
DecimalValue(ds) ==
    IF ds = <<>> THEN 0
    ELSE 10 * DecimalValue(SubSeq(ds, 1, Len(ds) - 1)) + DigitVal(ds[Len(ds)])

\* strconv.Atoi: an optional sign, then one or more decimal digits
Atoi(s) ==
    LET signed == s # <<>> /\ s[1] \in {"+", "-"}
        ds     == IF signed THEN Tail(s) ELSE s
    IN  IF ds = <<>> \/ \E i \in 1..Len(ds) : ~IsDigit(ds[i])
        THEN [v |-> 0, err |-> <<"strconv.Atoi: invalid syntax">>]
        ELSE [v |-> (IF s[1] = "-" THEN -1 ELSE 1) * DecimalValue(ds), err |-> NoErr]

-----------------------------------------------------------------------------
(* Timestamps *)

Millisecond == 1
Second == 1000 * Millisecond
Minute == 60 * Second
Hour == 60 * Minute

Parsed(v) == [v |-> v, err |-> NoErr]

\* hours counted as minutes
DurationHoursAsMinutes(hours, minutes, seconds, millis) ==
    hours * Minute + minutes * Minute + seconds * Second + millis * Millisecond

\* lines 356-359
Duration(hours, minutes, seconds, millis) ==
    hours * Hour + minutes * Minute + seconds * Second + millis * Millisecond

\* lines 316-334 and 337-351: the components are converted in order and the
\* first failure is returned.  h, m, sec, ms are the results of strconv.Atoi.
TimestampOf(h, m, sec, ms) ==
    IF h.err # NoErr THEN [d |-> 0, err |-> h.err]
    ELSE IF m.err # NoErr THEN [d |-> 0, err |-> m.err]
    ELSE IF sec.err # NoErr THEN [d |-> 0, err |-> sec.err]
    ELSE IF ms.err # NoErr THEN [d |-> 0, err |-> ms.err]
    ELSE [d |-> Duration(h.v, m.v, sec.v, ms.v), err |-> NoErr]

\* lines 324-334 and 341-351: secParts = strings.Split(parts[n], "."); the
\* milliseconds are secParts[1] when present, and parts after it are not read
TimestampOfParts(h, m, secParts) ==
    TimestampOf(h, m, Atoi(secParts[1]),
                IF Len(secParts) > 1 THEN Atoi(secParts[2]) ELSE Parsed(0))

\* lines 308-360.  The two accepted forms differ only in the hours, which the
\* two-component form leaves at their zero value.
parseTimestamp(s) ==
    LET parts == Split(s, <<":">>)
        n     == Len(parts)
    IN  IF n = 3 \/ n = 2
        THEN TimestampOfParts(IF n = 3 THEN Atoi(parts[1]) ELSE Parsed(0),
                              Atoi(parts[n - 1]),
                              Split(parts[n], <<".">>))
        ELSE [d |-> 0, err |-> <<"invalid timestamp format">>]

\* timestampLineRegex, one timestamp: (\d{1,2}:)?\d{2}:\d{2}\.\d{3}
\* The set of 0-based offsets at which a match starting at offset i can end.
DigitAt(s, i) == i < Len(s) /\ IsDigit(s[i + 1])

CharAt(s, i, c) == i < Len(s) /\ s[i + 1] = c

TsCoreEnds(s, i) ==
    IF /\ DigitAt(s, i) /\ DigitAt(s, i + 1) /\ CharAt(s, i + 2, ":")
       /\ DigitAt(s, i + 3) /\ DigitAt(s, i + 4) /\ CharAt(s, i + 5, ".")
       /\ DigitAt(s, i + 6) /\ DigitAt(s, i + 7) /\ DigitAt(s, i + 8)
    THEN {i + 9} ELSE {}

\* (\d{1,2}:)? from offset i: the offsets the optional hours can end at
HourEnds(s, i) ==
    {i} \cup {i + k + 1 : k \in {w \in {1, 2} :
                 /\ \A j \in 0..(w - 1) : DigitAt(s, i + j)
                 /\ CharAt(s, i + w, ":")}}

TsEnds(s, i) == UNION {TsCoreEnds(s, o) : o \in HourEnds(s, i)}

\* \s+ from offset i: the offsets after one or more white-space characters
SpaceEnds(s, i) ==
    {j \in (i + 1)..Len(s) : \A k \in i..(j - 1) : IsSpace(s[k + 1])}

ArrowEnds(s, i) ==
    IF i + 3 <= Len(s) /\ Slice(s, i, i + 3) = <<"-", "-", ">">> THEN {i + 3} ELSE {}

\* timestampLineRegex.MatchString
timestampLineRegex(s) ==
    \E a \in TsEnds(s, 0) : \E b \in SpaceEnds(s, a) : \E c \in ArrowEnds(s, b) :
        \E d \in SpaceEnds(s, c) : TsEnds(s, d) # {}

-----------------------------------------------------------------------------
(* Cue settings and the timestamp line *)

NoSettings ==
    [Vertical |-> <<>>, Line |-> <<>>, Position |-> <<>>,
     Size |-> <<>>, Align |-> <<>>, Region |-> <<>>]

\* one settings token, lines 285-302
ApplySetting(settings, tok) ==
    LET idx   == Index(tok, <<":">>)
        key   == Slice(tok, 0, idx)
        value == Slice(tok, idx + 1, Len(tok))
    IN  IF idx <= 0 THEN settings
        ELSE IF key = <<"v", "e", "r", "t", "i", "c", "a", "l">>
             THEN [settings EXCEPT !.Vertical = value]
        ELSE IF key = <<"l", "i", "n", "e">>
             THEN [settings EXCEPT !.Line = value]
        ELSE IF key = <<"p", "o", "s", "i", "t", "i", "o", "n">>
             THEN [settings EXCEPT !.Position = value]
        ELSE IF key = <<"s", "i", "z", "e">>
             THEN [settings EXCEPT !.Size = value]
        ELSE IF key = <<"a", "l", "i", "g", "n">>
             THEN [settings EXCEPT !.Align = value]
        ELSE IF key = <<"r", "e", "g", "i", "o", "n">>
             THEN [settings EXCEPT !.Region = value]
        ELSE settings

RECURSIVE ApplySettings(_, _)
ApplySettings(settings, toks) ==
    IF toks = <<>> THEN settings
    ELSE ApplySettings(ApplySetting(settings, toks[1]), Tail(toks))

TimestampLineFailed(e) ==
    [start |-> 0, end |-> 0, settings |-> NoSettings, err |-> e]

\* lines 273-305, start and end being the results of parseTimestamp
TimestampLineOf(start, end, toks) ==
    IF start.err # NoErr
    THEN TimestampLineFailed(<<"invalid start timestamp">> \o start.err)
    ELSE IF end.err # NoErr
    THEN TimestampLineFailed(<<"invalid end timestamp">> \o end.err)
    ELSE [start |-> start.d, end |-> end.d,
          settings |-> ApplySettings(NoSettings, toks), err |-> NoErr]

\* lines 262-281
TimestampLineOfParts(startStr, restParts) ==
    IF Len(restParts) = 0 THEN TimestampLineFailed(<<"missing end timestamp">>)
    ELSE TimestampLineOf(parseTimestamp(startStr), parseTimestamp(restParts[1]),
                         Tail(restParts))

\* lines 255-306
parseTimestampLine(line) ==
    LET parts == SplitN2(line, <<"-", "-", ">">>)
    IN  IF Len(parts) # 2 THEN TimestampLineFailed(<<"invalid timestamp line">>)
        ELSE TimestampLineOfParts(TrimSpace(parts[1]), Fields(TrimSpace(parts[2])))

-----------------------------------------------------------------------------
(* Voices *)

\* voiceStartRegex <v\s+([^>]+)> tried at offset i: the submatch indexes
\* <<match[0], match[1], match[2], match[3]>>, or <<>> when it does not match.
\* \s+ is greedy but must leave one character to the group.
voiceStartRegexAt(text, i) ==
    LET gts == {j \in (i + 3)..(Len(text) - 1) : text[j + 1] = ">"}
        j   == CHOOSE k \in gts : \A l \in gts : k <= l
        non == {k \in (i + 2)..j : ~IsSpace(text[k + 1])}
        w   == CHOOSE k \in non : \A l \in non : k <= l
    IN  IF /\ CharAt(text, i, "<") /\ CharAt(text, i + 1, "v")
           /\ i + 2 < Len(text) /\ IsSpace(text[i + 3])
           /\ gts # {}
           /\ j >= i + 4
        THEN <<i, j + 1, IF w = j THEN j - 1 ELSE w, j>>
        ELSE <<>>

\* voiceStartRegex.FindAllStringSubmatchIndex(text, -1), searching from offset p
RECURSIVE FindAllFrom(_, _)
FindAllFrom(text, p) ==
    LET starts == {i \in p..(Len(text) - 1) : voiceStartRegexAt(text, i) # <<>>}
        i      == CHOOSE k \in starts : \A l \in starts : k <= l
        m      == voiceStartRegexAt(text, i)
    IN  IF starts = {} THEN <<>> ELSE <<m>> \o FindAllFrom(text, m[2])

\* the text before a voice tag is dropped once a voice exists
AddPrefixDropStray(voices, prefix) ==
    IF prefix # <<>> /\ Len(voices) > 0 THEN voices
    ELSE IF prefix # <<>> THEN Append(voices, [Speaker |-> <<>>, Text |-> prefix])
    ELSE voices

\* lines 377-382: the text before a voice tag
AddPrefix(voices, prefix) ==
    IF prefix # <<>> /\ Len(voices) > 0
    THEN [voices EXCEPT ![Len(voices)].Text = @ \o <<" ">> \o prefix]
    ELSE IF prefix # <<>> THEN Append(voices, [Speaker |-> <<>>, Text |-> prefix])
    ELSE voices

\* the loop of lines 373-411, from the i-th match on
RECURSIVE VoicesLoop(_, _, _, _, _)
VoicesLoop(text, matches, i, lastEnd, voices) ==
    IF i > Len(matches) THEN voices
    ELSE
    LET match     == matches[i]
        voices1   == IF match[1] > lastEnd
                     THEN AddPrefix(voices, TrimSpace(Slice(text, lastEnd, match[1])))
                     ELSE voices
        name      == Slice(text, match[3], match[4])
        tagEnd    == match[2]
        voiceText == IF i + 1 <= Len(matches)
                     THEN Slice(text, tagEnd, matches[i + 1][1])
                     ELSE Slice(text, tagEnd, Len(text))
        idx       == Index(voiceText, <<"<", "/", "v", ">">>)
        cut       == IF idx >= 0 THEN Slice(voiceText, 0, idx) ELSE voiceText
        lastEnd1  == IF idx >= 0 THEN tagEnd + idx + 4 ELSE tagEnd + Len(voiceText)
    IN  VoicesLoop(text, matches, i + 1, lastEnd1,
                   Append(voices1, [Speaker |-> name, Text |-> TrimSpace(cut)]))

parseVoices(text) ==
    LET matches == FindAllFrom(text, 0)
    IN  IF Len(matches) = 0 THEN << [Speaker |-> <<>>, Text |-> text] >>
        ELSE VoicesLoop(text, matches, 1, 0, <<>>)

-----------------------------------------------------------------------------
(* Blocks *)

NilBlock == [type |-> "nil"]

\* lines 235-252, ts being the result of parseTimestampLine(lines[idx])
CueOf(ls, idx, ts) ==
    [block |-> [type |-> "Cue",
                ID |-> IF idx = 1 THEN ls[1] ELSE <<>>,
                StartTime |-> ts.start, EndTime |-> ts.end,
                Settings |-> ts.settings,
                Voices |-> IF ts.err = NoErr /\ idx + 1 < Len(ls)
                           THEN parseVoices(Join(SubSeq(ls, idx + 2, Len(ls)), <<"\n">>))
                           ELSE <<>>],
     err |-> ts.err]

\* lines 231-252, idx being 1 when the first line is taken as the cue ID
CueFrom(ls, idx) ==
    CueOf(ls, idx, IF idx >= Len(ls)
                   THEN TimestampLineFailed(<<"missing timestamp line">>)
                   ELSE parseTimestampLine(ls[idx + 1]))

\* lines 221-253.  On an error the caller drops the cue.
parseCue(ls) == CueFrom(ls, IF timestampLineRegex(ls[1]) THEN 0 ELSE 1)

NOTE == <<"N", "O", "T", "E">>
STYLE == <<"S", "T", "Y", "L", "E">>
REGION == <<"R", "E", "G", "I", "O", "N">>

\* one line of a REGION block, lines 201-212
RegionLine(region, line) ==
    LET idx   == Index(line, <<":">>)
        key   == TrimSpace(Slice(line, 0, idx))
        value == TrimSpace(Slice(line, idx + 1, Len(line)))
    IN  IF line = REGION \/ idx <= 0 THEN region
        ELSE IF key = <<"i", "d">> THEN [region EXCEPT !.ID = value]
        ELSE [region EXCEPT !.Settings =
                 [k \in DOMAIN @ \cup {key} |-> IF k = key THEN value ELSE @[k]]]

RECURSIVE RegionLines(_, _)
RegionLines(region, ls) ==
    IF ls = <<>> THEN region
    ELSE RegionLines(RegionLine(region, ls[1]), Tail(ls))

\* lines 169-219
parseBlock(ls) ==
    LET first == ls[1]
        text0 == TrimSpace(Slice(first, Len(NOTE), Len(first)))
        text1 == IF Len(ls) > 1
                 THEN text0 \o <<"\n">> \o Join(Tail(ls), <<"\n">>)
                 ELSE text0
    IN  IF Len(ls) = 0 THEN [block |-> NilBlock, err |-> NoErr]
        ELSE IF HasPrefix(first, NOTE)
        THEN [block |-> [type |-> "Note", Text |-> TrimSpace(text1)], err |-> NoErr]
        ELSE IF first = STYLE
        THEN [block |-> [type |-> "Style", Text |-> Join(Tail(ls), <<"\n">>)],
              err |-> NoErr]
        ELSE IF first = REGION \/ HasPrefix(first, REGION)
        THEN [block |-> RegionLines([type |-> "Region", ID |-> <<>>,
                                     Settings |-> [k \in {} |-> <<>>]],
                                    IF first = REGION THEN Tail(ls) ELSE ls),
              err |-> NoErr]
        ELSE parseCue(ls)

-----------------------------------------------------------------------------
(* Parse and ParseAll *)

WEBVTT == <<"W", "E", "B", "V", "T", "T">>

\* the header is looked for anywhere in the first line
HeaderAcceptedAnywhere(header) == Index(header, WEBVTT) >= 0

\* line 106
HeaderAccepted(header) == HasPrefix(header, WEBVTT)

\* what yield is called with; group is the lines the item was classified from
Item(block, err, group) == [block |-> block, err |-> err, group |-> group]

\* the loop goes on whatever yield returned, and stops at a failed group
LoopAfterYieldOnError(item, cont) == IF item.err # NoErr THEN "done" ELSE "loop"

\* the loop goes on whatever yield returned
LoopAfterYieldIgnored(item, cont) == "loop"

\* lines 120-127: Parse returns when yield returns false
LoopAfterYield(item, cont) == IF cont THEN "loop" ELSE "done"

\* every block is collected
ParseAllCollectAny(cues, item) == Append(cues, item.block)

\* lines 162-164
ParseAllCollect(cues, item) ==
    IF item.block.type = "Cue" THEN Append(cues, item.block) ELSE cues

NoReturn == [returned |-> FALSE, nilVtt |-> FALSE, cues |-> <<>>, err |-> NoErr]

\* What the loop body of the consumer answers to yield(item): any body may
\* break or go on; ParseAll's body (lines 159-164) returns on an error.
Answers(item) ==
    IF consumer = "ParseAll" THEN {item.err = NoErr} ELSE BOOLEAN

\* yield(item) returning cont: the item is handed over and the body runs
Yield(item, cont) ==
    /\ out' = Append(out, item)
    /\ stopped' = (stopped \/ ~cont)
    /\ IF consumer = "ParseAll"
       THEN IF item.err # NoErr
            THEN /\ ret' = [returned |-> FALSE, nilVtt |-> TRUE,
                            cues |-> <<>>, err |-> item.err]
                 /\ vtt' = vtt
            ELSE /\ vtt' = ParseAllCollect(vtt, item)
                 /\ ret' = ret
       ELSE UNCHANGED <<vtt, ret>>

NoYield == UNCHANGED <<out, stopped, vtt, ret>>

FnIdle == arg = <<>> /\ fields = <<>> /\ res = <<>> /\ step = "idle"

\* the item Parse makes of parseBlock's result pb: lines 119-127 and 138-146
ItemOf(pb, group) ==
    IF pb.err # NoErr THEN Item(NilBlock, pb.err, group)
    ELSE Item(pb.block, NoErr, group)

\* yield(item) is called and answered
Emit(item) == \E cont \in Answers(item) : Yield(item, cont)

\* lines 96-109
ScanHeader ==
    /\ pc = "header"
    /\ scans' = scans + 1
    /\ pc' = IF pos < Len(input) /\ HeaderAccepted(input[pos + 1]) THEN "loop" ELSE "done"
    /\ pos' = IF pos < Len(input) THEN pos + 1 ELSE pos
    /\ IF pc' = "loop" THEN NoYield
       ELSE Emit(Item(NilBlock,
                      IF pos < Len(input) THEN <<"missing WEBVTT header">>
                      ELSE IF readErr # NoErr THEN readErr
                      ELSE <<"empty input">>,
                      <<>>))
    /\ UNCHANGED <<input, readErr, consumer, lines, arg, fields, res, step>>

\* lines 118-128: the group is classified and its item handed to yield
Flush(item) ==
    IF item.err = NoErr /\ item.block.type = "nil"
    THEN lines' = <<>> /\ pc' = "loop" /\ NoYield
    ELSE \E cont \in Answers(item) :
            /\ Yield(item, cont)
            /\ pc' = LoopAfterYield(item, cont)
            /\ lines' = IF pc' = "loop" THEN <<>> ELSE lines

\* lines 112-133: one turn of the loop, scanner.Scan() having returned true
ScanLine ==
    /\ pc = "loop"
    /\ pos < Len(input)
    /\ scans' = scans + 1
    /\ pos' = pos + 1
    /\ IF input[pos + 1] # <<>>
       THEN lines' = Append(lines, input[pos + 1]) /\ pc' = "loop" /\ NoYield
       ELSE IF Len(lines) = 0
       THEN lines' = lines /\ pc' = "loop" /\ NoYield
       ELSE Flush(ItemOf(parseBlock(lines), lines))
    /\ UNCHANGED <<input, readErr, consumer, arg, fields, res, step>>

\* line 112: scanner.Scan() returns false and the loop ends
ScanEnd ==
    /\ pc = "loop"
    /\ pos >= Len(input)
    /\ scans' = scans + 1
    /\ pc' = "last"
    /\ NoYield
    /\ UNCHANGED <<input, readErr, consumer, pos, lines, arg, fields, res, step>>

\* lines 137-146: a failed last group ends Parse, whatever yield returns
FlushLast(item) ==
    IF item.err = NoErr /\ item.block.type = "nil"
    THEN pc' = "tail" /\ NoYield
    ELSE \E cont \in Answers(item) :
            /\ Yield(item, cont)
            /\ pc' = IF item.err = NoErr /\ cont THEN "tail" ELSE "done"

\* lines 135-147
LastBlock ==
    /\ pc = "last"
    /\ IF Len(lines) = 0 THEN pc' = "tail" /\ NoYield
       ELSE FlushLast(ItemOf(parseBlock(lines), lines))
    /\ UNCHANGED <<input, readErr, consumer, pos, scans, lines, arg, fields, res, step>>

\* lines 149-151
TailErr ==
    /\ pc = "tail"
    /\ pc' = "done"
    /\ IF readErr # NoErr THEN Emit(Item(NilBlock, readErr, <<>>)) ELSE NoYield
    /\ UNCHANGED <<input, readErr, consumer, pos, scans, lines, arg, fields, res, step>>

\* lines 160 and 166: ParseAll returns once Parse has
ParseAllReturn ==
    /\ pc = "done"
    /\ consumer = "ParseAll"
    /\ pc' = "returned"
    /\ ret' = IF ret.nilVtt THEN [ret EXCEPT !.returned = TRUE]
              ELSE [returned |-> TRUE, nilVtt |-> FALSE, cues |-> vtt, err |-> NoErr]
    /\ UNCHANGED <<input, readErr, consumer, pos, scans, lines, out, stopped, vtt,
                   arg, fields, res, step>>

-----------------------------------------------------------------------------
(* The documents Parse is run on *)

MaxBody == 3

IdLine == <<"i", "d">>

TimestampLine ==
    <<"0", "0", ":", "0", "1", ".", "0", "0", "0", " ", "-", "-", ">", " ",
      "0", "0", ":", "0", "2", ".", "0", "0", "0">>

LooseTimestampLine ==
    <<"1", ":", "0", "2", ".", "5", " ", "-", "-", ">", " ", "2", ":", "0", "3">>

FirstLines ==
    {WEBVTT, WEBVTT \o <<" ", "x">>, <<" ">> \o WEBVTT,
     <<"w", "e", "b", "v", "t", "t">>, <<>>}

VoiceLine == <<"<", "v", " ", "A", ">", "x", "<", "/", "v", ">">>

BodyLines ==
    {<<>>, NOTE, STYLE, REGION, IdLine, TimestampLine, LooseTimestampLine, VoiceLine}

RECURSIVE SeqsUpTo(_, _)
SeqsUpTo(S, n) ==
    IF n = 0 THEN {<<>>}
    ELSE LET shorter == SeqsUpTo(S, n - 1)
         IN  shorter \cup {Append(q, x) : q \in {r \in shorter : Len(r) = n - 1}, x \in S}

Documents ==
    {<<>>} \cup {<<h>> \o b : h \in FirstLines, b \in SeqsUpTo(BodyLines, MaxBody)}

Init ==
    /\ input \in Documents
    /\ readErr \in {NoErr, <<"read error">>}
    /\ consumer \in {"range", "ParseAll"}
    /\ pc = "header"
    /\ pos = 0
    /\ scans = 0
    /\ lines = <<>>
    /\ out = <<>>
    /\ stopped = FALSE
    /\ vtt = <<>>
    /\ ret = NoReturn
    /\ FnIdle

Next ==
    \/ ScanHeader
    \/ ScanLine
    \/ ScanEnd
    \/ LastBlock
    \/ TailErr
    \/ ParseAllReturn

Spec == Init /\ [][Next]_vars

-----------------------------------------------------------------------------
(* parseTimestamp on its own: timestamp texts written from numeric fields, *)
(* and texts put together from colon-separated parts of any shape          *)

MaxHour == 11
MaxParts == 3

MinuteValues == {0, 2, 59, 62, 99}
SecondValues == {0, 3, 59}
MilliValues == {0, 40, 999}

DigitChar(d) == <<"0", "1", "2", "3", "4", "5", "6", "7", "8", "9">>[d + 1]

\* n in decimal, with leading zeros up to width digits
RECURSIVE Pad(_, _)
Pad(n, width) ==
    IF n < 10 /\ width <= 1 THEN <<DigitChar(n)>>
    ELSE Append(Pad(n \div 10, width - 1), DigitChar(n % 10))

\* [H+:]MM:SS.mmm; h = -1 stands for the form without hours
FormatTimestamp(f) ==
    (IF f.h >= 0 THEN Pad(f.h, f.hw) \o <<":">> ELSE <<>>)
    \o Pad(f.m, 2) \o <<":">> \o Pad(f.s, 2) \o <<".">> \o Pad(f.ms, 3)

TimestampFields ==
    [h : -1..MaxHour, hw : {1, 2}, m : MinuteValues, s : SecondValues, ms : MilliValues]

RawParts ==
    {<<>>, <<"1">>, <<"0", "2">>, <<"x">>, <<"0", "2", ".", "5">>,
     <<"0", "3", ".", "0", "4", "0">>, <<"2", ".">>}

RawTimestamps == {Join(ps, <<":">>) : ps \in SeqsUpTo(RawParts, MaxParts) \ {<<>>}}

ParseIdle ==
    /\ input = <<>> /\ readErr = NoErr /\ consumer = "none" /\ pos = 0 /\ scans = 0
    /\ lines = <<>> /\ out = <<>> /\ stopped = FALSE /\ vtt = <<>> /\ ret = NoReturn

InitTimestamp ==
    /\ ParseIdle
    /\ pc = "parseTimestamp"
    /\ step = "ready"
    /\ res = <<>>
    /\ \/ fields \in TimestampFields /\ arg = FormatTimestamp(fields)
       \/ fields = <<>> /\ arg \in RawTimestamps

CallParseTimestamp ==
    /\ pc = "parseTimestamp"
    /\ step = "ready"
    /\ step' = "called"
    /\ res' = parseTimestamp(arg)
    /\ UNCHANGED <<input, readErr, consumer, pc, pos, scans, lines, out, stopped,
                   vtt, ret, arg, fields>>

SpecTimestamp == InitTimestamp /\ [][CallParseTimestamp]_vars

-----------------------------------------------------------------------------
(* parseVoices on its own: cue texts put together from tags and text *)

MaxChunks == 5

VoiceChunks ==
    {<<"<", "v", " ", "A", ">">>, <<"<", "/", "v", ">">>, <<"x">>, <<"y">>, <<" ">>}

VoiceTexts == {Join(cs, <<>>) : cs \in SeqsUpTo(VoiceChunks, MaxChunks)}

InitVoices ==
    /\ ParseIdle
    /\ pc = "parseVoices"
    /\ step = "ready"
    /\ res = <<>>
    /\ fields = <<>>
    /\ arg \in VoiceTexts

CallParseVoices ==
    /\ pc = "parseVoices"
    /\ step = "ready"
    /\ step' = "called"
    /\ res' = parseVoices(arg)
    /\ UNCHANGED <<input, readErr, consumer, pc, pos, scans, lines, out, stopped,
                   vtt, ret, arg, fields>>

SpecVoices == InitVoices /\ [][CallParseVoices]_vars

-----------------------------------------------------------------------------
(* Properties of Parse and ParseAll *)

MissingHeader == <<"missing WEBVTT header">>

\* the first line begins with the six characters W E B V T T
BeginsWithWEBVTT(line) ==
    Len(line) >= 6 /\ \A i \in 1..6 : line[i] = WEBVTT[i]

HeaderRead == pc \in {"loop", "last", "tail", "done", "returned"}

Finished == pc \in {"done", "returned"}

\* The maximal runs of non-empty lines of input after its first line, in
\* order, each with the index in input of its last line.
RECURSIVE GroupsFrom(_, _)
GroupsFrom(i, cur) ==
    IF i > Len(input)
    THEN IF cur = <<>> THEN <<>> ELSE <<[lines |-> cur, last |-> Len(input)]>>
    ELSE IF input[i] # <<>> THEN GroupsFrom(i + 1, Append(cur, input[i]))
    ELSE IF cur = <<>> THEN GroupsFrom(i + 1, <<>>)
    ELSE <<[lines |-> cur, last |-> i - 1]>> \o GroupsFrom(i + 1, <<>>)

Groups == GroupsFrom(2, <<>>)

\* a group that is not a NOTE, STYLE or REGION block
CueShaped(ls) ==
    /\ ~(Len(ls[1]) >= 4 /\ SubSeq(ls[1], 1, 4) = NOTE)
    /\ ls[1] # STYLE
    /\ ~(Len(ls[1]) >= 6 /\ SubSeq(ls[1], 1, 6) = REGION)

ErrorItems == {i \in 1..Len(out) : out[i].err # NoErr}

\* C1: when the first line does not begin with WEBVTT, Parse emits exactly
\* one item, (no block, "missing WEBVTT header"), reads nothing more, and
\* ParseAll returns that error and no cues.
MissingHeaderIsTheOnlyItem ==
    (HeaderRead /\ Len(input) >= 1 /\ ~BeginsWithWEBVTT(input[1])) =>
        /\ Finished
        /\ out = <<Item(NilBlock, MissingHeader, <<>>)>>
        /\ scans = 1
        /\ pc = "returned" =>
              ret = [returned |-> TRUE, nilVtt |-> TRUE, cues |-> <<>>,
                     err |-> MissingHeader]

MissingHeaderReturned ==
    /\ pc = "returned"
    /\ Len(input) = 3
    /\ input[1] = <<" ">> \o WEBVTT
    /\ input[2] = TimestampLine
    /\ ret.err = MissingHeader

\* C2: with the header accepted, no read error and a consumer that never
\* stops, Parse emits one item per maximal run of non-empty lines, in input
\* order; an item carries an error exactly when its group fails to parse;
\* and every item ever emitted has exactly one of block and error set.
OneItemPerGroup ==
    /\ \A i \in 1..Len(out) : (out[i].block.type = "nil") <=> (out[i].err # NoErr)
    /\ (/\ Finished /\ Len(input) >= 1 /\ BeginsWithWEBVTT(input[1])
        /\ readErr = NoErr /\ ~stopped) =>
           /\ Len(out) = Len(Groups)
           /\ \A i \in 1..Len(out) :
                 /\ out[i].group = Groups[i].lines
                 /\ (out[i].err # NoErr) <=> (parseBlock(Groups[i].lines).err # NoErr)
                 /\ out[i].err = NoErr => out[i].block = parseBlock(Groups[i].lines).block

LaterGroupAfterFailedGroup ==
    /\ pc = "done"
    /\ consumer = "range"
    /\ ~stopped
    /\ readErr = NoErr
    /\ Len(out) = 2
    /\ out[1].err = <<"missing timestamp line">>
    /\ out[2].block.type = "Cue"

\* C3: ParseAll returns the first error of the stream with a nil result,
\* Parse having read and emitted nothing past that item; otherwise it
\* returns no error and the Cue blocks of the stream in emission order, as
\* many as there are cue-shaped groups.
ParseAllResult ==
    pc = "returned" =>
        IF ErrorItems # {}
        THEN LET k == CHOOSE i \in ErrorItems : \A j \in ErrorItems : i <= j
             IN  /\ ret = [returned |-> TRUE, nilVtt |-> TRUE, cues |-> <<>>,
                           err |-> out[k].err]
                 /\ Len(out) = k
                 /\ (out[k].group # <<>>) =>
                       pos = IF Groups[k].last = Len(input) THEN Len(input)
                             ELSE Groups[k].last + 1
        ELSE /\ ret.returned /\ ~ret.nilVtt /\ ret.err = NoErr
             /\ ret.cues = SelectSeq([i \in 1..Len(out) |-> out[i].block],
                                     LAMBDA b : b.type = "Cue")
             /\ Len(ret.cues) =
                   Cardinality({i \in 1..Len(Groups) : CueShaped(Groups[i].lines)})

CuesReturnedWithoutNotes ==
    /\ pc = "returned"
    /\ ret.err = NoErr
    /\ Len(ret.cues) = 1
    /\ Len(out) = 2
    /\ out[1].block.type = "Note"

\* C4: once a call of yield has returned false, Parse calls scanner.Scan no
\* more, reads no further line and calls yield no more.
NothingAfterStop ==
    [][stopped => (scans' = scans /\ pos' = pos /\ out' = out)]_vars

StoppedMidStream ==
    /\ stopped
    /\ pc = "done"
    /\ consumer = "range"
    /\ Len(out) = 1
    /\ out[1].err = NoErr
    /\ pos < Len(input)

\* C5: every Cue emitted by Parse or returned by ParseAll has at least one
\* voice.
CuesHaveVoices ==
    /\ \A i \in 1..Len(out) :
          out[i].block.type = "Cue" => Len(out[i].block.Voices) >= 1
    /\ \A i \in 1..Len(ret.cues) : Len(ret.cues[i].Voices) >= 1

\* C9: a Cue is only built from a group whose timestamp line (the first
\* line or, after an identifier, the second) matches the timestamp-line
\* pattern.
CueOnlyFromMatchingTimestampLine ==
    \A i \in 1..Len(out) :
        out[i].block.type = "Cue" =>
            \/ timestampLineRegex(out[i].group[1])
            \/ Len(out[i].group) >= 2 /\ timestampLineRegex(out[i].group[2])

\* C10: when reading fails after the header was accepted and the consumer
\* never stops, the read error is the last item of the sequence.
ReadErrorIsLastItem ==
    (/\ Finished /\ Len(input) >= 1 /\ BeginsWithWEBVTT(input[1])
     /\ readErr # NoErr /\ ~stopped) =>
        /\ Len(out) >= 1
        /\ out[Len(out)].err = readErr

-----------------------------------------------------------------------------
(* Properties of parseTimestamp *)

\* the whole text matches (\d{1,2}:)?\d{2}:\d{2}\.\d{3}
WellFormedTimestamp(text) == Len(text) \in TsEnds(text, 0)

DigitsAndSeparators(text) ==
    \A i \in 1..Len(text) : IsDigit(text[i]) \/ text[i] \in {":", "."}

\* C6: a text of digits, ":" and "." whose minutes or seconds are not two
\* digits, or whose milliseconds are not three, is rejected.
StrictDigitCounts ==
    (/\ pc = "parseTimestamp" /\ step = "called"
     /\ DigitsAndSeparators(arg) /\ ~WellFormedTimestamp(arg)) =>
        res.err # NoErr

\* C7: a well-formed text decodes to hours*3600 + minutes*60 + seconds
\* seconds plus the milliseconds (hours = 0 without an hours component), and
\* the MM:SS.mmm text of the same instant decodes to the same duration.
TimestampValue ==
    (/\ pc = "parseTimestamp" /\ step = "called"
     /\ fields # <<>> /\ WellFormedTimestamp(arg)) =>
        LET h == IF fields.h >= 0 THEN fields.h ELSE 0
        IN  /\ res = [d |-> ((h * 60 + fields.m) * 60 + fields.s) * 1000 + fields.ms,
                      err |-> NoErr]
            /\ (fields.h >= 0 /\ h * 60 + fields.m <= 99) =>
                  parseTimestamp(FormatTimestamp(
                      [fields EXCEPT !.h = -1, !.m = h * 60 + fields.m])) = res

HourFormDecoded ==
    /\ pc = "parseTimestamp"
    /\ step = "called"
    /\ arg = <<"0", "1", ":", "0", "2", ":", "0", "3", ".", "0", "4", "0">>
    /\ res = [d |-> 3723040, err |-> NoErr]

-----------------------------------------------------------------------------
(* Properties of parseVoices *)

Markers == FindAllFrom(arg, 0)

\* the text from the end of the i-th voice tag to the next tag or the end
Span(i) ==
    Slice(arg, Markers[i][2],
          IF i < Len(Markers) THEN Markers[i + 1][1] ELSE Len(arg))

ClosingToken == <<"<", "/", "v", ">">>

BeforeClose(i) == TrimSpace(Slice(Span(i), 0, Index(Span(i), ClosingToken)))

AfterClose(i) ==
    TrimSpace(Slice(Span(i), Index(Span(i), ClosingToken) + 4, Len(Span(i))))

\* 1 when the text before the first tag makes a leading anonymous voice
Leading == IF TrimSpace(Slice(arg, 0, Markers[1][1])) # <<>> THEN 1 ELSE 0

\* C8 as stated: the text of a voice whose span holds a closing token is the
\* trimmed text before the token; what follows the token is in no voice.
TextEndsAtClosingToken ==
    (pc = "parseVoices" /\ step = "called") =>
        \A i \in 1..Len(Markers) :
            Index(Span(i), ClosingToken) >= 0 =>
                res[i + Leading].Text = BeforeClose(i)

\* C8 amended: the text of such a voice is the trimmed text before the
\* token, followed, when another voice tag follows and the text between the
\* token and that tag is not blank, by one space and that text trimmed; the
\* text after the closing token of the last tag is in no voice.
TextAfterClosingTokenIsAppended ==
    (pc = "parseVoices" /\ step = "called") =>
        /\ Len(Markers) > 0 => Len(res) = Len(Markers) + Leading
        /\ \A i \in 1..Len(Markers) :
              Index(Span(i), ClosingToken) >= 0 =>
                  res[i + Leading].Text =
                      IF i < Len(Markers) /\ AfterClose(i) # <<>>
                      THEN BeforeClose(i) \o <<" ">> \o AfterClose(i)
                      ELSE BeforeClose(i)

StrayTextBetweenVoices ==
    /\ pc = "parseVoices"
    /\ step = "called"
    /\ arg = <<"<", "v", " ", "A", ">", "x", "<", "/", "v", ">", "y",
               "<", "v", " ", "A", ">">>
    /\ res = << [Speaker |-> <<"A">>, Text |-> <<"x", " ", "y">>],
                [Speaker |-> <<"A">>, Text |-> <<>>] >>

====
